---- MODULE Spec2Model ----
(***************************************************************************)
(* A model of the real-time audio core of onboard-ai:                      *)
(*   - AudioStreamer (src/lib/analytics/analytics-service.ts): the         *)
(*     playback scheduler with its recovery logic;                         *)
(*   - AudioRecorder (src/lib/audio-recorder.ts): the capture bridge.      *)
(*                                                                         *)
(* Time is counted in sample periods of the playback rate (1/24000 s), so  *)
(* that a buffer of n samples lasts exactly n time units and every         *)
(* constant of the code (0.1 s, 0.2 s, 50 ms) is an integer.               *)
(* window timers run on the wall clock, context.currentTime on the audio   *)
(* clock; the two are not synchronised (the audio clock stands still while *)
(* the context is suspended), so a pending timer may fire at any audio     *)
(* time.                                                                   *)
(***************************************************************************)
EXTENDS Integers, Sequences, FiniteSets, TLC

VARIABLES
    \* ---- AudioStreamer fields
    audioQueue,        \* Float32Array[]: frames waiting, as [off, len]
    isPlaying,
    isStreamComplete,
    checkInterval,     \* TRUE when the field holds the handle of an interval
    scheduledTime,
    retryCount,
    gainNode,          \* id of the GainNode this.gainNode refers to
    \* ---- the host around the AudioStreamer
    now,               \* context.currentTime
    intervals,         \* 100 ms poll intervals registered and not cleared
    timeouts,          \* pending setTimeout(() => scheduleNextBuffer())
    fadeTimers,        \* pending setTimeout of stop() rebuilding the gain
    connected,         \* gain nodes connected to context.destination
    nodes,             \* number of GainNodes created so far
    faded,             \* gain nodes stop() has ramped to zero
    \* ---- history of the AudioStreamer (observations, never read by it)
    appended,          \* frames pushed since the last explicit stop()
    started,           \* buffers started since the last explicit stop()
    bytesIn,           \* bytes delivered since the last explicit stop()
    stopped,           \* stop() returned and addPCM16 not called since
    fatalErrors,       \* "Max recovery attempts reached" reports
    recovery,          \* queue at entry and exit of the last rebuild
    rebuilds,          \* recovery attempts that rebuilt the output graph
    failures,          \* exceptions raised by the host so far
    adds,              \* addPCM16 calls so far
    stops              \* stop() calls so far

streamerVars == <<audioQueue, isPlaying, isStreamComplete, checkInterval,
                  scheduledTime, retryCount, gainNode, now, intervals, timeouts,
                  fadeTimers, connected, nodes, faded, appended, started,
                  bytesIn, stopped, fatalErrors, recovery, rebuilds, failures,
                  adds, stops>>

VARIABLES
    \* ---- AudioRecorder fields
    stream,            \* 0 (undefined) or the id of the MediaStream held
    source,            \* 0 (undefined) or the source node held; the nodes
                       \* are numbered in the order they are created
    recording,
    recordingWorklet,  \* TRUE when the field holds a node
    vuWorklet,
    starting,          \* 0 (null) or the start() call whose promise it holds
    \* ---- the host around the AudioRecorder
    pc,                \* per start() call: the await it is suspended at
    handlers,          \* per start() call: handleStop callbacks then()-ed
    runnable,          \* handleStop callbacks queued to run
    trackStops,        \* per acquired stream: times its track was stopped
    sourceStreams,     \* per source node created: the stream it reads
    links,             \* connections source node -> worklet node, as
                       \* <<source node, kind of the worklet, start() call
                       \* that created the worklet>>
    stopCalls,         \* stop() calls so far
    mediaSupported,    \* window and navigator.mediaDevices.getUserMedia exist
    envFailure,        \* where the missing API was reported: "none",
                       \* "constructor" or "start"
    inbox,             \* chunk messages posted by the recording worklet
                       \* and not yet delivered to port.onmessage
    dataEvents,        \* "data" events emitted to the listeners so far
    \* ---- history of the AudioRecorder
    calls,             \* the start() and stop() calls so far, each with
                       \* the number of starts in flight when it was made
    tornDown           \* handleStop has run and start() not called since

recorderVars == <<stream, source, recording, recordingWorklet, vuWorklet,
                  starting, pc, handlers, runnable, trackStops,
                  sourceStreams, links, stopCalls, mediaSupported,
                  envFailure, inbox, dataEvents,
                  calls, tornDown>>

VARIABLES
    \* ---- the sample codec (src/lib/index.ts) and the converter of the
    \* capture worklet: the arrays passed through them
    floats,            \* Float32Array given to the converters
    int16s,            \* result of float32ToPCM16
    workletInt16s,     \* result of _convertToInt16
    roundTrip,         \* result of PCM16ToFloat32 on int16s
    chunkBytes,        \* Uint8Array given to _processPCM16Chunk: the bytes
                       \* of its ArrayBuffer, its byteOffset and its length
    chunkFloats        \* Float32Array it returns, queued by addPCM16

codecVars == <<floats, int16s, workletInt16s, roundTrip, chunkBytes,
               chunkFloats>>

VARIABLES
    \* ---- AudioRecorderProcessor fields (the capture worklet)
    buffers,           \* _buffers: the blocks accumulated, oldest first
    frameCount,        \* _frameCount
    \* ---- history of the AudioRecorderProcessor
    captured,          \* every sample handed to process(), in order
    emitted            \* the chunks posted as 'data' messages, in order

workletVars == <<buffers, frameCount, captured, emitted>>

VARIABLES
    \* ---- the BaseOnboardingFlow instances, in the order they are made
    flows,             \* per instance: steps (OnboardingStep[]: per step,
                       \* whether it is required and the position of the
                       \* step nextStepId names, 0 for none),
                       \* currentStepIndex, completionRate
                       \* (analyticsData.metrics.completionRate) and, as
                       \* history, finished: advanceStep has succeeded on
                       \* the last step
    \* ---- OnboardingManager
    activeFlow,        \* 0 (null) or the instance the field holds
    \* ---- the host around them
    flowCalls,         \* the advanceStep and processUserInput calls
                       \* suspended at an await, oldest first
    \* ---- history of the manager
    lastResult         \* what the last processUserInput to return returned

flowVars == <<flows, activeFlow, flowCalls, lastResult>>

vars == <<streamerVars, recorderVars, codecVars, workletVars, flowVars>>

(***************************************************************************)
(* Program constants                                                       *)
(***************************************************************************)
sampleRate == 24000
bufferSize == 7680
maxRetries == 3
PosScale == 32767
NegScale == 32768
WorkletPosScale == 32767                           \* 0x7fff
WorkletNegScale == 32768                           \* 0x8000
Int16Max == 32767
Int16Min == 0 - 32768
ChunkScale == 32768
MaxByteOffset == 2     \* where a chunk may begin in its ArrayBuffer
WorkletThreshold == 1600
initialBufferTime == sampleRate \div 10            \* 0.1 s
SCHEDULE_AHEAD_TIME == sampleRate \div 5           \* 0.2 s
StartErrorDelay == sampleRate \div 10              \* currentTime + 0.1

(***************************************************************************)
(* Bounds of the model                                                     *)
(***************************************************************************)
MaxAdds == 3        \* addPCM16 calls
MaxStops == 1       \* explicit stop() calls
MaxFailures == 1    \* exceptions the host raises
MaxTicks == 2       \* steps of the audio clock
Tick == sampleRate \div 5                          \* one step: 200 ms
\* bytes per addPCM16: 100 ms of audio; one full buffer, two samples more
\* and a trailing odd byte
ChunkSizes == {4800, 2 * (bufferSize + 2) + 1}
\* the runs that exhaust the retry budget
MaxRecoveryAdds == 5
MaxRecoveryFailures == 5
RecoveryChunkSizes == {4800}
\* the scenario of three chunks of 100 ms: a clock of 50 ms steps
MaxScenarioAdds == 3
MaxScenarioTicks == 8
ScenarioTick == sampleRate \div 20
ScenarioChunkSizes == {4800}
\* the chunks that exercise the slicing: up to MaxFullFrames full buffers,
\* from one sample short of a buffer to MaxExtraBytes bytes beyond it
MaxSliceAdds == 2
MaxFullFrames == 2
MaxExtraBytes == 5
SliceChunkSizes ==
    {b \in {2 * k * bufferSize + d :
                k \in 0..MaxFullFrames, d \in (0 - 2)..MaxExtraBytes} : b >= 0}
\* the runs in which the gain rebuild armed by stop() fires
MaxGainAdds == 2
MaxGainFailures == 1
\* the codec: grid points beyond +/-1.0, in steps of 2^-15
MaxOver == 4
CoarseStep == 2 * MaxOver
\* the capture worklet: samples handed to process() in all, and the sizes
\* of the blocks (none, one render quantum, larger ones)
MaxCaptured == 3500
BlockSizes == {0, 128, 700, WorkletThreshold}
\* the onboarding flow: steps of a flow, calls made on it
MaxSteps == 2
MaxFlows == 2       \* flow instances made by selectProduct
MaxInFlight == 2    \* calls suspended at an await at one time
\* the capture bridge
MaxStarts == 2      \* start() calls
MaxStopCalls == 2   \* stop() calls
MaxPosts == 2       \* chunk messages posted by the recording worklet

Max(a, b) == IF a >= b THEN a ELSE b

Min(a, b) == IF a <= b THEN a ELSE b

(***************************************************************************)
(* What the host does with one iteration of the scheduling loop: the       *)
(* buffer is created and started, source.start() throws (caught in the     *)
(* loop), or createBuffer / createBufferSource / connect throws (not       *)
(* caught in the loop).                                                    *)
(***************************************************************************)
Outcomes == {"ok", "startThrows", "createThrows"}
MaxTimeouts == 2
MaxOutcomes == 2    \* iterations of one pass whose outcome is drawn
OutcomeSeqs(n) == [1..Min(n, MaxOutcomes) -> Outcomes]

(***************************************************************************)
(* The times of the program are doubles, those of the model whole sample   *)
(* periods.  The two sides of the look-ahead test of line 390,             *)
(* scheduledTime < currentTime + 0.2, are sums of doubles rounded one by   *)
(* one: when they are equal in sample periods the doubles are equal or one *)
(* unit in the last place apart, in either direction, depending on the     *)
(* values summed ((0.4 + 0.1) + 0.1 < 0.4 + 0.2, but not                   *)
(* (0.3 + 0.1) + 0.1 < 0.3 + 0.2).  A pass is given the results of the     *)
(* test for the ties it meets, in order; every result is possible.         *)
(***************************************************************************)
MaxTies == 2        \* ties of one pass whose result is drawn
TieSeqs(n) == [1..Min(n, MaxTies) -> BOOLEAN]
OutcomeAt(outs, i) == IF i <= Len(outs) THEN outs[i] ELSE "ok"

(***************************************************************************)
(* The AudioStreamer as a record, so that its methods are functions from   *)
(* state to state; thrown marks an exception leaving the method.           *)
(***************************************************************************)
Streamer ==
    [q |-> audioQueue, playing |-> isPlaying, complete |-> isStreamComplete,
     interval |-> checkInterval, sched |-> scheduledTime, retry |-> retryCount,
     gain |-> gainNode, intervals |-> intervals, timeouts |-> timeouts,
     fadeTimers |-> fadeTimers,
     connected |-> connected, nodes |-> nodes, faded |-> faded,
     started |-> started, fatal |-> fatalErrors, recovery |-> recovery,
     rebuilds |-> rebuilds, failures |-> failures, thrown |-> FALSE]

Bounded(s, maxFaults) ==
    s.timeouts <= MaxTimeouts /\ s.failures <= maxFaults

Becomes(s) ==
    /\ audioQueue' = s.q
    /\ isPlaying' = s.playing
    /\ isStreamComplete' = s.complete
    /\ checkInterval' = s.interval
    /\ scheduledTime' = s.sched
    /\ retryCount' = s.retry
    /\ gainNode' = s.gain
    /\ intervals' = s.intervals
    /\ timeouts' = s.timeouts
    /\ fadeTimers' = s.fadeTimers
    /\ connected' = s.connected
    /\ nodes' = s.nodes
    /\ faded' = s.faded
    /\ started' = s.started
    /\ fatalErrors' = s.fatal
    /\ recovery' = s.recovery
    /\ rebuilds' = s.rebuilds
    /\ failures' = s.failures

\* _processPCM16Chunk: a chunk of n bytes decodes to floor(n / 2) samples
\* (Float32Array(n / 2) truncates; the read of a trailing odd byte throws
\* inside the loop and is caught there).
ProcessPCM16Chunk(bytes) == bytes \div 2

\* the slicing loop of lines 304-308 without the rest of lines 311-313
SliceFramesDroppingRest(off, n) ==
    [i \in 1..(n \div bufferSize) |->
        [off |-> off + 2 * bufferSize * (i - 1), len |-> bufferSize]]

\* addPCM16, lines 304-313: slices of bufferSize samples, then the rest.
\* A frame is the place of its samples in the byte stream: [off, len].
RECURSIVE SliceFrames(_, _)
SliceFrames(off, n) ==
    IF n >= bufferSize
    THEN <<[off |-> off, len |-> bufferSize]>>
             \o SliceFrames(off + 2 * bufferSize, n - bufferSize)
    ELSE IF n > 0 THEN <<[off |-> off, len |-> n]>> ELSE <<>>

\* the loop without the guard of line 400
StartTimeUnguarded(sched, t) == sched

\* line 400: never schedule in the past
StartTime(sched, t) == Max(sched, t)

\* line 390: this.scheduledTime < this.context.currentTime + 0.2, a
\* comparison of doubles; on a tie the result is the first of ties (false
\* once they are used up)
LookAhead(sched, ties) ==
    \/ sched < now + SCHEDULE_AHEAD_TIME
    \/ sched = now + SCHEDULE_AHEAD_TIME /\ ties # <<>> /\ Head(ties)

\* the results left for the later ties of the pass
TiesLeft(sched, ties) ==
    IF sched = now + SCHEDULE_AHEAD_TIME /\ ties # <<>>
    THEN Tail(ties) ELSE ties

\* scheduleNextBuffer, lines 388-410
RECURSIVE ScheduleLoop(_, _, _, _)
ScheduleLoop(s, outs, ties, i) ==
    IF Len(s.q) > 0 /\ LookAhead(s.sched, ties)
    THEN LET audioData == Head(s.q)
             rest == TiesLeft(s.sched, ties)
             s1 == [s EXCEPT !.q = Tail(s.q)]
             startTime == StartTime(s.sched, now)
         IN  CASE OutcomeAt(outs, i) = "createThrows" ->
                    [s1 EXCEPT !.thrown = TRUE, !.failures = @ + 1]
               [] OutcomeAt(outs, i) = "startThrows" ->
                    ScheduleLoop([s1 EXCEPT !.sched = now + StartErrorDelay,
                                            !.failures = @ + 1],
                                 outs, rest, i + 1)
               [] OTHER ->
                    ScheduleLoop(
                        [s1 EXCEPT !.started = Append(@,
                                       [frame |-> audioData, start |-> startTime,
                                        at |-> now, gain |-> s.gain]),
                                   !.sched = startTime + audioData.len],
                        outs, rest, i + 1)
    ELSE s

\* clearInterval(this.checkInterval); this.checkInterval = null, under
\* if (this.checkInterval): lines 415-418 and 448-451
ClearCheckInterval(s) ==
    IF s.interval
    THEN [s EXCEPT !.interval = FALSE, !.intervals = @ - 1]
    ELSE s

\* lines 412-435 without the branch of a complete stream
ScheduleTailKeepsPolling(s) ==
    IF Len(s.q) = 0
    THEN IF s.interval
         THEN s
         ELSE [s EXCEPT !.interval = TRUE, !.intervals = @ + 1]
    ELSE [s EXCEPT !.timeouts = @ + 1]

\* lines 412-435 without the test of line 420
ScheduleTailRegistersAgain(s) ==
    IF Len(s.q) = 0
    THEN IF s.complete
         THEN ClearCheckInterval([s EXCEPT !.playing = FALSE])
         ELSE [s EXCEPT !.interval = TRUE, !.intervals = @ + 1]
    ELSE [s EXCEPT !.timeouts = @ + 1]

\* scheduleNextBuffer, lines 412-435
ScheduleTail(s) ==
    IF Len(s.q) = 0
    THEN IF s.complete
         THEN ClearCheckInterval([s EXCEPT !.playing = FALSE])
         ELSE IF s.interval
              THEN s
              ELSE [s EXCEPT !.interval = TRUE, !.intervals = @ + 1]
    ELSE [s EXCEPT !.timeouts = @ + 1]

ScheduleNextBuffer(s, outs, ties) ==
    LET l == ScheduleLoop(s, outs, ties, 1)
    IN  IF l.thrown THEN l ELSE ScheduleTail(l)

\* stop() that leaves the queue as it is
StopKeepingQueue(s) ==
    [ClearCheckInterval(s) EXCEPT
              !.playing = FALSE, !.complete = TRUE,
              !.sched = now,
              !.faded = @ \cup {s.gain}, !.fadeTimers = @ + 1]

\* stop() that hands the retry budget back
StopResettingRetry(s) ==
    [ClearCheckInterval(s) EXCEPT
              !.playing = FALSE, !.complete = TRUE, !.q = <<>>,
              !.sched = now, !.retry = 0,
              !.faded = @ \cup {s.gain}, !.fadeTimers = @ + 1]

\* stop(), lines 441-469: the ramp of line 456 fades this.gainNode
StopStreamer(s) ==
    [ClearCheckInterval(s) EXCEPT
              !.playing = FALSE, !.complete = TRUE, !.q = <<>>,
              !.sched = now,
              !.faded = @ \cup {s.gain}, !.fadeTimers = @ + 1]

\* createGain() and connect(destination), lines 341-342 and 461-462
NewGain(s) ==
    [s EXCEPT !.nodes = @ + 1, !.gain = s.nodes + 1,
              !.connected = @ \cup {s.nodes + 1}]

\* attemptRecovery, lines 331-367
AttemptRecovery(s, outs, ties) ==
    LET r == [s EXCEPT !.retry = @ + 1, !.thrown = FALSE]
    IN  IF r.retry <= maxRetries
        THEN LET a == NewGain(StopStreamer(r))
                 b == [a EXCEPT !.playing = FALSE, !.complete = FALSE,
                                !.sched = now + initialBufferTime]
                 c == IF Len(b.q) > 0
                      THEN ScheduleNextBuffer([b EXCEPT !.playing = TRUE],
                                              outs, ties)
                      ELSE b
             IN  [c EXCEPT !.recovery = <<r.q, b.q>>, !.rebuilds = @ + 1]
        ELSE [r EXCEPT !.fatal = @ + 1]

\* addPCM16 that starts the first frame without the buffering delay
AddPCM16BodyNoDelay(s, frames, outs, ties) ==
    LET s1 == [s EXCEPT !.complete = FALSE, !.q = @ \o frames]
    IN  IF ~s1.playing
        THEN ScheduleNextBuffer(
                 [s1 EXCEPT !.playing = TRUE, !.sched = now], outs, ties)
        ELSE s1

\* addPCM16, lines 286-326
AddPCM16Body(s, frames, outs, ties) ==
    LET s1 == [s EXCEPT !.complete = FALSE, !.q = @ \o frames]
    IN  IF ~s1.playing
        THEN ScheduleNextBuffer(
                 [s1 EXCEPT !.playing = TRUE,
                            !.sched = now + initialBufferTime], outs, ties)
        ELSE s1

AddPCM16(bytes, maxAdds, maxFaults) ==
    /\ adds < maxAdds
    /\ LET frames == SliceFrames(bytesIn, ProcessPCM16Chunk(bytes))
       IN  /\ \E outs \in OutcomeSeqs(Len(audioQueue) + Len(frames)),
                 ties \in TieSeqs(Len(audioQueue) + Len(frames)) :
                 LET r == AddPCM16Body(Streamer, frames, outs, ties)
                 IN  IF r.thrown
                     THEN \E routs \in OutcomeSeqs(Len(StopStreamer(r).q)),
                             rties \in TieSeqs(Len(StopStreamer(r).q)) :
                              LET f == AttemptRecovery(r, routs, rties)
                              IN  Bounded(f, maxFaults) /\ Becomes(f)
                     ELSE Bounded(r, maxFaults) /\ Becomes(r)
           /\ appended' = appended \o frames
    /\ bytesIn' = bytesIn + bytes
    /\ stopped' = FALSE
    /\ adds' = adds + 1
    /\ UNCHANGED <<now, stops>>
    /\ UNCHANGED <<recorderVars, codecVars, workletVars, flowVars>>

\* the timeout armed at lines 431-434 fires
TimeoutFires(maxFaults) ==
    /\ timeouts > 0
    /\ \E outs \in OutcomeSeqs(Len(audioQueue)),
          ties \in TieSeqs(Len(audioQueue)) :
           LET r == ScheduleNextBuffer(
                        [Streamer EXCEPT !.timeouts = @ - 1], outs, ties)
           IN  Bounded(r, maxFaults) /\ Becomes(r)
    /\ UNCHANGED <<now, appended, bytesIn, stopped, adds, stops>>
    /\ UNCHANGED <<recorderVars, codecVars, workletVars, flowVars>>

\* a poll interval registered at lines 421-425 fires with frames queued
IntervalFires(maxFaults) ==
    /\ intervals > 0
    /\ Len(audioQueue) > 0
    /\ \E outs \in OutcomeSeqs(Len(audioQueue)),
          ties \in TieSeqs(Len(audioQueue)) :
           LET r == ScheduleNextBuffer(Streamer, outs, ties)
           IN  Bounded(r, maxFaults) /\ Becomes(r)
    /\ UNCHANGED <<now, appended, bytesIn, stopped, adds, stops>>
    /\ UNCHANGED <<recorderVars, codecVars, workletVars, flowVars>>

\* the timeout armed by stop() at lines 459-468 fires
FadeTimerFires ==
    /\ fadeTimers > 0
    /\ Becomes(NewGain([Streamer EXCEPT !.fadeTimers = @ - 1,
                                        !.connected = @ \ {gainNode}]))
    /\ UNCHANGED <<now, appended, bytesIn, stopped, adds, stops>>
    /\ UNCHANGED <<recorderVars, codecVars, workletVars, flowVars>>

\* an explicit stop() by the caller
Stop ==
    /\ stops < MaxStops
    /\ Becomes([StopStreamer(Streamer) EXCEPT !.started = <<>>])
    /\ appended' = <<>>
    /\ bytesIn' = 0
    /\ stopped' = TRUE
    /\ stops' = stops + 1
    /\ UNCHANGED <<now, adds>>
    /\ UNCHANGED <<recorderVars, codecVars, workletVars, flowVars>>

\* resume(), lines 474-486
Resume ==
    /\ Becomes([Streamer EXCEPT !.complete = FALSE,
                                !.sched = now + initialBufferTime])
    /\ UNCHANGED <<now, appended, bytesIn, stopped, adds, stops>>
    /\ UNCHANGED <<recorderVars, codecVars, workletVars, flowVars>>

\* the audio clock advances
ClockAdvances ==
    /\ now < MaxTicks * Tick
    /\ now' = now + Tick
    /\ UNCHANGED <<audioQueue, isPlaying, isStreamComplete, checkInterval,
                   scheduledTime, retryCount, gainNode, intervals, timeouts,
                   fadeTimers,
                   connected, nodes, faded, appended, started, bytesIn,
                   stopped, fatalErrors, recovery, rebuilds, failures, adds,
                   stops>>
    /\ UNCHANGED <<recorderVars, codecVars, workletVars, flowVars>>

\* the audio clock advances in the steps of the scenario
ScenarioClockAdvances ==
    /\ now < MaxScenarioTicks * ScenarioTick
    /\ now' = now + ScenarioTick
    /\ UNCHANGED <<audioQueue, isPlaying, isStreamComplete, checkInterval,
                   scheduledTime, retryCount, gainNode, intervals, timeouts,
                   fadeTimers,
                   connected, nodes, faded, appended, started, bytesIn,
                   stopped, fatalErrors, recovery, rebuilds, failures, adds,
                   stops>>
    /\ UNCHANGED <<recorderVars, codecVars, workletVars, flowVars>>

StreamerInit ==
    /\ audioQueue = <<>>
    /\ isPlaying = FALSE
    /\ isStreamComplete = FALSE
    /\ checkInterval = FALSE
    /\ scheduledTime = 0
    /\ retryCount = 0
    /\ gainNode = 1
    /\ now = 0
    /\ intervals = 0
    /\ timeouts = 0
    /\ fadeTimers = 0
    /\ connected = {1}
    /\ nodes = 1
    /\ faded = {}
    /\ appended = <<>>
    /\ started = <<>>
    /\ bytesIn = 0
    /\ stopped = FALSE
    /\ fatalErrors = 0
    /\ recovery = <<>>
    /\ rebuilds = 0
    /\ failures = 0
    /\ adds = 0
    /\ stops = 0

(***************************************************************************)
(* The AudioRecorder (src/lib/audio-recorder.ts).  A start() call runs     *)
(* synchronously up to its first await and is resumed by the host when the *)
(* awaited promise settles; pc[i] names the await call i is suspended at:  *)
(*   "getUserMedia" (line 125), "audioContext" (line 126),                 *)
(*   "addModule" (line 132), "addModuleVu" (line 151),                     *)
(* and "fulfilled" / "rejected" once the promise of the call has settled.  *)
(***************************************************************************)
Recorder ==
    [stream |-> stream, source |-> source, recording |-> recording,
     recordingWorklet |-> recordingWorklet, vuWorklet |-> vuWorklet,
     starting |-> starting, trackStops |-> trackStops,
     sourceStreams |-> sourceStreams, links |-> links]

RecorderBecomes(r) ==
    /\ stream' = r.stream
    /\ source' = r.source
    /\ recording' = r.recording
    /\ recordingWorklet' = r.recordingWorklet
    /\ vuWorklet' = r.vuWorklet
    /\ starting' = r.starting
    /\ trackStops' = r.trackStops
    /\ sourceStreams' = r.sourceStreams
    /\ links' = r.links

InFlight == {i \in DOMAIN pc : pc[i] \notin {"fulfilled", "rejected"}}

\* handleStop that keeps the stream handle
HandleStopKeepingStream(r) ==
    [r EXCEPT !.links = {l \in @ : l[1] # r.source},
              !.trackStops = IF r.stream # 0
                             THEN [@ EXCEPT ![r.stream] = @ + 1] ELSE @,
              !.recordingWorklet = FALSE,
              !.vuWorklet = FALSE,
              !.recording = FALSE]

\* handleStop, lines 175-182: this.source?.disconnect() removes every
\* connection of the one node the field holds; the connections of a source
\* node it held before stay
HandleStop(r) ==
    [r EXCEPT !.links = {l \in @ : l[1] # r.source},
              !.trackStops = IF r.stream # 0
                             THEN [@ EXCEPT ![r.stream] = @ + 1] ELSE @,
              !.stream = 0,
              !.recordingWorklet = FALSE,
              !.vuWorklet = FALSE,
              !.recording = FALSE]

\* start(), lines 114-125 and 169: the executor calls getUserMedia and
\* suspends; this.starting is the new promise
StartCall ==
    /\ Len(pc) < MaxStarts
    /\ handlers' = Append(handlers, 0)
    /\ IF mediaSupported
       THEN /\ pc' = Append(pc, "getUserMedia")
            /\ starting' = Len(pc) + 1
            /\ UNCHANGED envFailure
       ELSE \* lines 115-121: the async function throws, its promise is
            \* rejected, this.starting is not assigned
            /\ pc' = Append(pc, "rejected")
            /\ envFailure' = "start"
            /\ UNCHANGED starting
    /\ UNCHANGED <<stream, source, recording, recordingWorklet, vuWorklet,
                   runnable, trackStops, sourceStreams, links, stopCalls,
                   mediaSupported, inbox, dataEvents>>
    /\ calls' = Append(calls, [op |-> "start",
                               inFlight |-> Cardinality(InFlight)])
    /\ tornDown' = FALSE
    /\ UNCHANGED <<streamerVars, codecVars, workletVars, flowVars>>

\* catch without the finally of lines 164-166
RejectsKeepingStarting(i, r) ==
    /\ pc' = [pc EXCEPT ![i] = "rejected"]
    /\ RecorderBecomes(r)
    /\ UNCHANGED <<handlers, runnable, stopCalls, mediaSupported, envFailure,
                   inbox, dataEvents, calls, tornDown>>
    /\ UNCHANGED <<streamerVars, codecVars, workletVars, flowVars>>

\* catch and finally, lines 162-166: the promise of call i rejects, the
\* callbacks then()-ed on it are never run, this.starting is nulled
Rejects(i, r) ==
    /\ pc' = [pc EXCEPT ![i] = "rejected"]
    /\ RecorderBecomes([r EXCEPT !.starting = 0])
    /\ UNCHANGED <<handlers, runnable, stopCalls, mediaSupported, envFailure,
                   inbox, dataEvents, calls, tornDown>>
    /\ UNCHANGED <<streamerVars, codecVars, workletVars, flowVars>>

Suspends(i, at, r) ==
    /\ pc' = [pc EXCEPT ![i] = at]
    /\ RecorderBecomes(r)
    /\ UNCHANGED <<handlers, runnable, stopCalls, mediaSupported, envFailure,
                   inbox, dataEvents, calls, tornDown>>
    /\ UNCHANGED <<streamerVars, codecVars, workletVars, flowVars>>

\* line 125 resumes: the microphone is acquired or access is refused
GetUserMediaSettles(i, ok) ==
    /\ pc[i] = "getUserMedia"
    /\ IF ok
       THEN Suspends(i, "audioContext",
                     [Recorder EXCEPT !.stream = Len(trackStops) + 1,
                                      !.trackStops = Append(@, 0)])
       ELSE Rejects(i, Recorder)

\* lines 126-132 resume: createMediaStreamSource(this.stream) makes a new
\* source node on the stream the field holds now, and throws a TypeError
\* when this.stream is undefined
AudioContextSettles(i, ok) ==
    /\ pc[i] = "audioContext"
    /\ IF ok /\ stream # 0
       THEN Suspends(i, "addModule",
                     [Recorder EXCEPT !.source = Len(sourceStreams) + 1,
                                      !.sourceStreams = Append(@, stream)])
       ELSE Rejects(i, Recorder)

\* lines 132-153 resume: the source node the field holds now is connected
\* to the recording worklet this call creates
AddModuleSettles(i, ok) ==
    /\ pc[i] = "addModule"
    /\ IF ok
       THEN Suspends(i, "addModuleVu",
                     [Recorder EXCEPT
                         !.recordingWorklet = TRUE,
                         !.links = @ \cup {<<source, "recorder", i>>}])
       ELSE Rejects(i, Recorder)

\* lines 151-166 resume: on success recording is set, the promise is
\* fulfilled, the callbacks then()-ed on it are queued, this.starting is
\* nulled
AddModuleVuSettles(i, ok) ==
    /\ pc[i] = "addModuleVu"
    /\ IF ok
       THEN /\ pc' = [pc EXCEPT ![i] = "fulfilled"]
            /\ RecorderBecomes(
                   [Recorder EXCEPT
                       !.vuWorklet = TRUE,
                       !.links = @ \cup {<<source, "vumeter", i>>},
                       !.recording = TRUE,
                       !.starting = 0])
            /\ runnable' = runnable + handlers[i]
            /\ UNCHANGED <<handlers, stopCalls, mediaSupported, envFailure,
                           inbox, dataEvents, calls, tornDown>>
            /\ UNCHANGED <<streamerVars, codecVars, workletVars, flowVars>>
       ELSE Rejects(i, Recorder)

\* stop(), lines 172-190
StopCall ==
    /\ stopCalls < MaxStopCalls
    /\ stopCalls' = stopCalls + 1
    /\ IF starting # 0
       THEN /\ handlers' = [handlers EXCEPT ![starting] = @ + 1]
            /\ UNCHANGED <<stream, source, recording, recordingWorklet,
                           vuWorklet, starting, trackStops, sourceStreams,
                           links>>
       ELSE /\ RecorderBecomes(HandleStop(Recorder))
            /\ UNCHANGED handlers
    /\ calls' = Append(calls, [op |-> "stop",
                               inFlight |-> Cardinality(InFlight)])
    /\ tornDown' = (tornDown \/ starting = 0)
    /\ UNCHANGED <<pc, runnable, mediaSupported, envFailure, inbox,
                   dataEvents>>
    /\ UNCHANGED <<streamerVars, codecVars, workletVars, flowVars>>

\* a handleStop passed to then() at line 185 runs
HandleStopRuns ==
    /\ runnable > 0
    /\ runnable' = runnable - 1
    /\ RecorderBecomes(HandleStop(Recorder))
    /\ tornDown' = TRUE
    /\ UNCHANGED <<pc, handlers, stopCalls, mediaSupported, envFailure, inbox,
                   dataEvents, calls>>
    /\ UNCHANGED <<streamerVars, codecVars, workletVars, flowVars>>

\* a recording worklet, fed by a source node connected to it, posts a chunk
\* message (worklet lines 71-77); the message waits in the port's queue.  A
\* source node whose track was stopped feeds silence, and the worklet posts
\* chunks of it all the same
WorkletPosts ==
    /\ inbox + dataEvents < MaxPosts
    /\ \E l \in links : l[2] = "recorder"
    /\ inbox' = inbox + 1
    /\ UNCHANGED <<stream, source, recording, recordingWorklet, vuWorklet,
                   starting, pc, handlers, runnable, trackStops,
                   sourceStreams, links, stopCalls, mediaSupported,
                   envFailure, dataEvents, calls, tornDown>>
    /\ UNCHANGED <<streamerVars, codecVars, workletVars, flowVars>>

\* recordingWorklet.port.onmessage, lines 138-146: the chunk is encoded and
\* emitted as a "data" event
MessageDelivered ==
    /\ inbox > 0
    /\ inbox' = inbox - 1
    /\ dataEvents' = dataEvents + 1
    /\ UNCHANGED <<stream, source, recording, recordingWorklet, vuWorklet,
                   starting, pc, handlers, runnable, trackStops,
                   sourceStreams, links, stopCalls, mediaSupported,
                   envFailure, calls, tornDown>>
    /\ UNCHANGED <<streamerVars, codecVars, workletVars, flowVars>>

RecorderInit ==
    /\ stream = 0
    /\ source = 0
    /\ recording = FALSE
    /\ recordingWorklet = FALSE
    /\ vuWorklet = FALSE
    /\ starting = 0
    /\ pc = <<>>
    /\ handlers = <<>>
    /\ runnable = 0
    /\ trackStops = <<>>
    /\ sourceStreams = <<>>
    /\ links = {}
    /\ stopCalls = 0
    /\ envFailure = "none"     \* the constructor, lines 110-112, checks nothing
    /\ inbox = 0
    /\ dataEvents = 0
    /\ calls = <<>>
    /\ tornDown = FALSE

(***************************************************************************)
(* The sample codec.  A sample is a rational [num, den]; the inputs lie on *)
(* two grids of float32 values: multiples of 2^-15 over [-1, 1] and a      *)
(* little beyond (every eighth, and every one next to -1, 0 and 1), and    *)
(* steps of 2^-22 over [-1/128, 1/128] and a little beyond.  The           *)
(* products of the converters are exact in double precision for such       *)
(* inputs.  The store of PCM16ToFloat32 into a Float32Array rounds its     *)
(* quotient to float32; the model keeps the quotient exact.                *)
(***************************************************************************)
CoarseDen == NegScale
FineDen == 128 * NegScale
CoarseNums ==
    {k \in (0 - CoarseDen - MaxOver)..(CoarseDen + MaxOver) :
        \/ k % CoarseStep = 0
        \/ \E c \in {0 - CoarseDen, 0, CoarseDen} :
               k \in (c - MaxOver)..(c + MaxOver)}
Samples ==
    {[num |-> k, den |-> CoarseDen] : k \in CoarseNums}
    \cup {[num |-> k, den |-> FineDen] : k \in (0 - NegScale - MaxOver)..(NegScale + MaxOver)}

\* Math.max(-1, Math.min(1, x))
Clamp(x) ==
    IF x.num > x.den THEN [num |-> x.den, den |-> x.den]
    ELSE IF x.num < 0 - x.den THEN [num |-> 0 - x.den, den |-> x.den]
    ELSE x

\* the conversion of a number stored into an Int16Array: truncation toward
\* zero of num / den, then reduction modulo 2^16 into the int16 range
ToInt16(num, den) ==
    LET t == IF num % den = 0 \/ num >= 0
             THEN num \div den ELSE (num \div den) + 1
    IN  ((t - Int16Min) % (Int16Max - Int16Min + 1)) + Int16Min

\* the loop body of float32ToPCM16 without the clamp of line 86
SampleToPCM16Unclamped(x) ==
    ToInt16(x.num * (IF x.num < 0 THEN NegScale ELSE PosScale), x.den)

\* the loop body of float32ToPCM16, lines 86-87
SampleToPCM16(x) ==
    LET s == Clamp(x)
    IN  ToInt16(s.num * (IF s.num < 0 THEN NegScale ELSE PosScale), s.den)

float32ToPCM16(float32Array) ==
    [i \in DOMAIN float32Array |-> SampleToPCM16(float32Array[i])]

\* _convertToInt16 of the capture worklet, lines 87-94 of audio-recorder.ts
WorkletSampleToInt16(x) ==
    LET s == Clamp(x)
    IN  ToInt16(s.num * (IF s.num < 0 THEN WorkletNegScale
                                     ELSE WorkletPosScale), s.den)

convertToInt16(float32Buffer) ==
    [i \in DOMAIN float32Buffer |-> WorkletSampleToInt16(float32Buffer[i])]

\* a decoder that divides every sample by 32768
PCM16ToSampleSymmetric(v) == [num |-> v, den |-> NegScale]

\* the loop body of PCM16ToFloat32, line 97
PCM16ToSample(v) == [num |-> v, den |-> IF v < 0 THEN NegScale ELSE PosScale]

PCM16ToFloat32(int16Array) ==
    [i \in DOMAIN int16Array |-> PCM16ToSample(int16Array[i])]

\* an array of one sample is converted by the library and by the worklet
Encode ==
    /\ floats # <<>>
    /\ int16s = <<>>
    /\ int16s' = float32ToPCM16(floats)
    /\ workletInt16s' = convertToInt16(floats)
    /\ UNCHANGED <<floats, roundTrip, chunkBytes, chunkFloats>>
    /\ UNCHANGED <<streamerVars, recorderVars, workletVars, flowVars>>

\* the result of the library is converted back
Decode ==
    /\ int16s # <<>>
    /\ roundTrip = <<>>
    /\ roundTrip' = PCM16ToFloat32(int16s)
    /\ UNCHANGED <<floats, int16s, workletInt16s, chunkBytes, chunkFloats>>
    /\ UNCHANGED <<streamerVars, recorderVars, workletVars, flowVars>>

\* a Uint8Array over a whole ArrayBuffer of the bytes given, as
\* new Uint8Array(audioData) makes it
Uint8Array(bytes) ==
    [buffer |-> bytes, byteOffset |-> 0, length |-> Len(bytes)]

\* buffer.subarray(begin, end): a view of the same ArrayBuffer
Subarray(chunk, begin, end) ==
    [buffer |-> chunk.buffer, byteOffset |-> chunk.byteOffset + begin,
     length |-> end - begin]

\* the elements chunk[0], chunk[1], ... of a Uint8Array
Elements(chunk) ==
    SubSeq(chunk.buffer, chunk.byteOffset + 1,
           chunk.byteOffset + chunk.length)

\* the signed 16-bit value of two bytes, low byte first
Int16LE(lo, hi) ==
    LET u == lo + 256 * hi
    IN  IF u > Int16Max THEN u - 65536 ELSE u

\* dataView.getInt16(i * 2, true), lines 270 and 274 (i from 1): the
\* DataView is made over chunk.buffer with no byteOffset, so it reads from
\* the start of the ArrayBuffer wherever the chunk begins in it
GetInt16(chunk, i) ==
    Int16LE(chunk.buffer[2 * i - 1], chunk.buffer[2 * i])

\* the values the loop of lines 272-279 reads
Int16View(chunk) ==
    [i \in 1..ProcessPCM16Chunk(chunk.length) |-> GetInt16(chunk, i)]

\* _processPCM16Chunk, lines 268-281, as the samples it returns
ProcessPCM16Samples(chunk) ==
    [i \in 1..ProcessPCM16Chunk(chunk.length) |->
        [num |-> GetInt16(chunk, i), den |-> ChunkScale]]

\* addPCM16 decodes the chunk it is given
ProcessChunk ==
    /\ chunkBytes.length > 0
    /\ chunkFloats = <<>>
    /\ chunkFloats' = ProcessPCM16Samples(chunkBytes)
    /\ UNCHANGED <<floats, int16s, workletInt16s, roundTrip, chunkBytes>>
    /\ UNCHANGED <<streamerVars, recorderVars, workletVars, flowVars>>

NoConversion ==
    /\ int16s = <<>>
    /\ workletInt16s = <<>>
    /\ roundTrip = <<>>
    /\ chunkFloats = <<>>

CodecInit == floats = <<>> /\ chunkBytes = Uint8Array(<<>>) /\ NoConversion

WorkletInit ==
    /\ buffers = <<>>
    /\ frameCount = 0
    /\ captured = <<>>
    /\ emitted = <<>>

(***************************************************************************)
(* The capture worklet (AudioRecorderProcessor, audio-recorder.ts 40-98).  *)
(* The i-th sample of the microphone is SampleAt(i), a fixed pattern of    *)
(* in-range and out-of-range values.                                       *)
(***************************************************************************)
SamplePattern ==
    <<[num |-> 0, den |-> CoarseDen],
      [num |-> 12345, den |-> CoarseDen],
      [num |-> 0 - 1, den |-> CoarseDen],
      [num |-> CoarseDen + MaxOver, den |-> CoarseDen],
      [num |-> 0 - 20000, den |-> CoarseDen],
      [num |-> CoarseDen, den |-> CoarseDen],
      [num |-> 0 - CoarseDen - 1, den |-> CoarseDen]>>

SampleAt(i) == SamplePattern[(i % Len(SamplePattern)) + 1]

RECURSIVE Flatten(_)
Flatten(blocks) ==
    IF blocks = <<>> THEN <<>> ELSE Head(blocks) \o Flatten(Tail(blocks))

\* process() that posts the chunk and keeps what it has accumulated
ProcessWithoutReset(n) ==
    /\ Len(captured) + n <= MaxCaptured
    /\ LET buffer == [i \in 1..n |-> SampleAt(Len(captured) + i)]
       IN  /\ captured' = captured \o buffer
           /\ IF n = 0
              THEN UNCHANGED <<buffers, frameCount, emitted>>
              ELSE /\ buffers' = Append(buffers, buffer)
                   /\ frameCount' = frameCount + n
                   /\ IF frameCount + n >= WorkletThreshold
                      THEN emitted' = Append(emitted,
                               convertToInt16(Flatten(Append(buffers, buffer))))
                      ELSE UNCHANGED emitted
    /\ UNCHANGED <<streamerVars, recorderVars, codecVars, flowVars>>

\* process(), lines 53-85, called with a block of n samples (n = 0: no
\* input connected, lines 54-58)
Process(n) ==
    /\ Len(captured) + n <= MaxCaptured
    /\ LET buffer == [i \in 1..n |-> SampleAt(Len(captured) + i)]
       IN  /\ captured' = captured \o buffer
           /\ IF n = 0
              THEN UNCHANGED <<buffers, frameCount, emitted>>
              ELSE IF frameCount + n >= WorkletThreshold
                   THEN /\ emitted' = Append(emitted,
                               convertToInt16(Flatten(Append(buffers, buffer))))
                        /\ buffers' = <<>>
                        /\ frameCount' = 0
                   ELSE /\ buffers' = Append(buffers, buffer)
                        /\ frameCount' = frameCount + n
                        /\ UNCHANGED emitted
    /\ UNCHANGED <<streamerVars, recorderVars, codecVars, flowVars>>

(***************************************************************************)
(* The onboarding flows (BaseOnboardingFlow) and the OnboardingManager.    *)
(* A step is [required, next]; the ids of the steps are their positions.   *)
(* currentStepIndex counts from 0 as in the source.  advanceStep runs up   *)
(* to await this.validateStep (line 96) and processUserInput up to await   *)
(* this.activeFlow.advanceStep (line 186); each goes on in a later step,   *)
(* after any other call the host has made in between.  at names the await  *)
(* a call is suspended at: "validateStep", or "advanceStep" once the       *)
(* advanceStep a processUserInput awaits has returned.                     *)
(***************************************************************************)
NoResult == [success |-> FALSE, completed |-> FALSE, message |-> "none"]

\* the manager after construction, lines 21-24 and 70-73
FlowInit ==
    /\ flows = <<>>
    /\ activeFlow = 0
    /\ flowCalls = <<>>
    /\ lastResult = NoResult

\* the step lists initializeSteps may return, the one without steps
\* included: nextStepId names the following step or is absent; the last
\* step has none
Flows ==
    UNION {{f \in [1..n -> [required : BOOLEAN, next : 0..n]] :
                \A i \in 1..n : f[i].next = 0 \/ (i < n /\ f[i].next = i + 1)} :
           n \in 0..MaxSteps}

\* a flow after its constructor (lines 20-40) and the getFlow() of
\* selectProduct (lines 51-53)
NewFlow(initializeSteps) ==
    [steps |-> initializeSteps, currentStepIndex |-> 0,
     completionRate |-> 0, finished |-> FALSE]

\* getCurrentStep, lines 66-71: the position of the step, 0 for null
GetCurrentStep(flow) ==
    IF flow.currentStepIndex >= 0 /\ flow.currentStepIndex < Len(flow.steps)
    THEN flow.currentStepIndex + 1 ELSE 0

\* getNextStep, lines 73-86
GetNextStep(flow) ==
    LET currentStep == GetCurrentStep(flow)
    IN  IF currentStep = 0 THEN 0
        ELSE IF flow.steps[currentStep].next # 0
        THEN flow.steps[currentStep].next
        ELSE IF flow.currentStepIndex + 1 < Len(flow.steps)
        THEN flow.currentStepIndex + 2
        ELSE 0

Failed == [success |-> FALSE, message |-> "failed"]

\* advanceStep, lines 103-118: the next step is read from the flow as it
\* is now
MoveToNextStep(flow) ==
    LET nextStep == GetNextStep(flow)
    IN  IF nextStep # 0
        THEN [flow |-> [flow EXCEPT !.currentStepIndex = nextStep - 1],
              suspended |-> FALSE,
              result |-> [success |-> TRUE, message |-> "advanced"]]
        ELSE [flow |-> [flow EXCEPT !.completionRate = 100,
                                    !.finished = TRUE],
              suspended |-> FALSE,
              result |-> [success |-> TRUE, message |-> "completed"]]

\* advanceStep from its call, lines 88-118: it fails when no step is
\* current, suspends at await this.validateStep when there is input and
\* the step is required, and runs to its end otherwise
AdvanceStep(flow, hasInput) ==
    LET currentStep == GetCurrentStep(flow)
    IN  IF currentStep = 0
        THEN [flow |-> flow, suspended |-> FALSE, result |-> Failed]
        ELSE IF hasInput /\ flow.steps[currentStep].required
        THEN [flow |-> flow, suspended |-> TRUE, result |-> Failed]
        ELSE MoveToNextStep(flow)

\* advanceStep from its await, lines 96-118
AdvanceStepResumes(flow, isValid) ==
    IF ~isValid
    THEN [flow |-> flow, suspended |-> FALSE, result |-> Failed]
    ELSE MoveToNextStep(flow)

\* createProgress, lines 134-135: the status it reports
ProgressStatus(flow) ==
    IF flow.currentStepIndex = 0 THEN "not_started"
    ELSE IF flow.currentStepIndex >= Len(flow.steps) THEN "completed"
    ELSE "in_progress"

RemoveAt(seq, c) ==
    [k \in 1..(Len(seq) - 1) |-> IF k < c THEN seq[k] ELSE seq[k + 1]]

\* selectProduct, lines 80-107: an unknown product changes nothing; a
\* known one makes a new flow, initialises its steps and replaces the
\* active flow
SelectProduct(known, initializeSteps) ==
    /\ IF known
       THEN /\ Len(flows) < MaxFlows
            /\ flows' = Append(flows, NewFlow(initializeSteps))
            /\ activeFlow' = Len(flows) + 1
       ELSE UNCHANGED <<flows, activeFlow>>
    /\ UNCHANGED <<flowCalls, lastResult>>
    /\ UNCHANGED <<streamerVars, recorderVars, codecVars, workletVars>>

\* resetSession, lines 267-286
ResetSession ==
    /\ activeFlow' = 0
    /\ UNCHANGED <<flows, flowCalls, lastResult>>
    /\ UNCHANGED <<streamerVars, recorderVars, codecVars, workletVars>>

\* a holder of flow instance f calls advanceStep, with or without input
AdvanceStepCall(f, hasInput) ==
    LET r == AdvanceStep(flows[f], hasInput)
    IN  /\ r.suspended => Len(flowCalls) < MaxInFlight
        /\ flows' = [flows EXCEPT ![f] = r.flow]
        /\ flowCalls' =
               IF r.suspended
               THEN Append(flowCalls, [kind |-> "advanceStep", flow |-> f,
                                       at |-> "validateStep",
                                       result |-> r.result])
               ELSE flowCalls
        /\ UNCHANGED <<activeFlow, lastResult>>
        /\ UNCHANGED <<streamerVars, recorderVars, codecVars, workletVars>>

\* processUserInput from its call, lines 161-186: without an active flow
\* it returns a failure; with one it calls advanceStep on it and suspends
\* at the await of line 186, whether advanceStep has suspended or returned
ProcessUserInputCall(hasInput) ==
    IF activeFlow = 0
    THEN /\ lastResult' = [success |-> FALSE, completed |-> FALSE,
                           message |-> "no_flow"]
         /\ UNCHANGED <<flows, activeFlow, flowCalls>>
         /\ UNCHANGED <<streamerVars, recorderVars, codecVars, workletVars>>
    ELSE LET r == AdvanceStep(flows[activeFlow], hasInput)
         IN  /\ Len(flowCalls) < MaxInFlight
             /\ flows' = [flows EXCEPT ![activeFlow] = r.flow]
             /\ flowCalls' =
                    Append(flowCalls,
                           [kind |-> "processUserInput", flow |-> activeFlow,
                            at |-> IF r.suspended THEN "validateStep"
                                                  ELSE "advanceStep",
                            result |-> r.result])
             /\ UNCHANGED <<activeFlow, lastResult>>
             /\ UNCHANGED <<streamerVars, recorderVars, codecVars,
                            workletVars>>

\* the validateStep that call c awaits resolves and its advanceStep runs
\* from line 96 to its end, on the flow it was called on; a
\* processUserInput now waits for the result
ValidateStepSettles(c, isValid) ==
    /\ flowCalls[c].at = "validateStep"
    /\ LET f == flowCalls[c].flow
           r == AdvanceStepResumes(flows[f], isValid)
       IN  /\ flows' = [flows EXCEPT ![f] = r.flow]
           /\ flowCalls' =
                  IF flowCalls[c].kind = "advanceStep"
                  THEN RemoveAt(flowCalls, c)
                  ELSE [flowCalls EXCEPT ![c].at = "advanceStep",
                                         ![c].result = r.result]
    /\ UNCHANGED <<activeFlow, lastResult>>
    /\ UNCHANGED <<streamerVars, recorderVars, codecVars, workletVars>>

\* processUserInput from its await, lines 186-248, for the result of its
\* advanceStep: this.activeFlow is read again; createProgress on null
\* and createConversationContext with no current step (lines 147-150)
\* throw, which the catch of line 243 turns into a failure
ProcessUserInputResult(advanceResult) ==
    IF activeFlow = 0 THEN [success |-> FALSE, completed |-> FALSE,
                            message |-> "error"]
    ELSE IF GetCurrentStep(flows[activeFlow]) = 0
    THEN [success |-> FALSE, completed |-> FALSE, message |-> "error"]
    ELSE [success |-> advanceResult.success,
          completed |-> ProgressStatus(flows[activeFlow]) = "completed",
          message |-> advanceResult.message]

ProcessUserInputResumes(c) ==
    /\ flowCalls[c].kind = "processUserInput"
    /\ flowCalls[c].at = "advanceStep"
    /\ lastResult' = ProcessUserInputResult(flowCalls[c].result)
    /\ flowCalls' = RemoveAt(flowCalls, c)
    /\ UNCHANGED <<flows, activeFlow>>
    /\ UNCHANGED <<streamerVars, recorderVars, codecVars, workletVars>>

Init ==
    /\ StreamerInit /\ RecorderInit /\ CodecInit /\ WorkletInit /\ FlowInit
    /\ mediaSupported = TRUE

(***************************************************************************)
(* Spec: the playback scheduler under every operation, any timing of the   *)
(* timers and of the clock, and the exceptions the host may raise.         *)
(***************************************************************************)
Next ==
    \/ \E bytes \in ChunkSizes : AddPCM16(bytes, MaxAdds, MaxFailures)
    \/ TimeoutFires(MaxFailures)
    \/ IntervalFires(MaxFailures)
    \/ FadeTimerFires
    \/ Stop
    \/ Resume
    \/ ClockAdvances

Spec == Init /\ [][Next]_vars

(***************************************************************************)
(* SpecRecovery: the recovery controller driven until the retry budget is  *)
(* exhausted and beyond, with the clock standing still.                    *)
(***************************************************************************)
RecoveryNext ==
    \/ \E bytes \in RecoveryChunkSizes :
           AddPCM16(bytes, MaxRecoveryAdds, MaxRecoveryFailures)
    \/ TimeoutFires(MaxRecoveryFailures)
    \/ IntervalFires(MaxRecoveryFailures)
    \/ FadeTimerFires
    \/ Stop
    \/ Resume

SpecRecovery == Init /\ [][RecoveryNext]_vars

(***************************************************************************)
(* SpecGain: the scheduler with the gain rebuild armed by stop() firing at *)
(* any moment after the stop(), also after later calls.                    *)
(***************************************************************************)
GainNext ==
    \/ \E bytes \in RecoveryChunkSizes :
           AddPCM16(bytes, MaxGainAdds, MaxGainFailures)
    \/ TimeoutFires(MaxGainFailures)
    \/ IntervalFires(MaxGainFailures)
    \/ FadeTimerFires
    \/ Stop
    \/ Resume
    \/ ClockAdvances

SpecGain == Init /\ [][GainNext]_vars

(***************************************************************************)
(* SpecScenario: a fresh scheduler fed chunks of 100 ms of audio, with no   *)
(* failure of the host, no stop() and no resume(), the calls and the       *)
(* timers placed anywhere on a clock of 50 ms steps.                       *)
(***************************************************************************)
ScenarioNext ==
    \/ \E bytes \in ScenarioChunkSizes : AddPCM16(bytes, MaxScenarioAdds, 0)
    \/ TimeoutFires(0)
    \/ IntervalFires(0)
    \/ ScenarioClockAdvances

SpecScenario == Init /\ [][ScenarioNext]_vars

(***************************************************************************)
(* SpecSlice: addPCM16 called with chunks of every size around a multiple  *)
(* of the buffer size, an empty chunk and chunks of odd length included.   *)
(***************************************************************************)
SliceNext == \E bytes \in SliceChunkSizes : AddPCM16(bytes, MaxSliceAdds, 0)

SpecSlice == Init /\ [][SliceNext]_vars

(***************************************************************************)
(* SpecCodec: the converters applied to an array of one sample, for every  *)
(* sample of the two grids.                                                *)
(***************************************************************************)
CodecSampleInit ==
    /\ StreamerInit /\ RecorderInit /\ WorkletInit /\ FlowInit
    /\ mediaSupported = TRUE
    /\ \E x \in Samples : floats = <<x>>
    /\ chunkBytes = Uint8Array(<<>>)
    /\ NoConversion

CodecNext == Encode \/ Decode

SpecCodec == CodecSampleInit /\ [][CodecNext]_vars

(***************************************************************************)
(* SpecDecoder: one little-endian 16-bit value decoded by the playback     *)
(* scheduler and by the codec of the library.  The chunk is a Uint8Array   *)
(* over its own two bytes, for every one of the 65536 values, or a view of *)
(* two bytes inside a larger ArrayBuffer.                                  *)
(***************************************************************************)
Bytes == 0..255

\* the bytes of the larger ArrayBuffers
ViewBytes == {0, 1, 127, 128, 255}

\* the two-byte views of an ArrayBuffer of four bytes
Views ==
    {Subarray(Uint8Array(<<a, b, c, d>>), begin, begin + 2) :
        a \in ViewBytes, b \in ViewBytes, c \in ViewBytes, d \in ViewBytes,
        begin \in 0..MaxByteOffset}

DecoderChunks ==
    {Uint8Array(<<lo, hi>>) : lo \in Bytes, hi \in Bytes} \cup Views

DecoderInit ==
    /\ StreamerInit /\ RecorderInit /\ WorkletInit /\ FlowInit
    /\ mediaSupported = TRUE
    /\ floats = <<>>
    /\ chunkBytes \in DecoderChunks
    /\ int16s = <<Int16LE(Elements(chunkBytes)[1], Elements(chunkBytes)[2])>>
    /\ workletInt16s = <<>>
    /\ roundTrip = <<>>
    /\ chunkFloats = <<>>

DecoderNext == ProcessChunk \/ Decode

SpecDecoder == DecoderInit /\ [][DecoderNext]_vars

(***************************************************************************)
(* SpecFlow: the manager from its construction, under any interleaving of  *)
(* selectProduct, resetSession, processUserInput and advanceStep calls     *)
(* with the resumption of the calls suspended at an await.                 *)
(***************************************************************************)
FlowNext ==
    \/ \E known \in BOOLEAN, initializeSteps \in Flows :
           SelectProduct(known, initializeSteps)
    \/ ResetSession
    \/ \E f \in DOMAIN flows, hasInput \in BOOLEAN :
           AdvanceStepCall(f, hasInput)
    \/ \E hasInput \in BOOLEAN : ProcessUserInputCall(hasInput)
    \/ \E c \in DOMAIN flowCalls, isValid \in BOOLEAN :
           ValidateStepSettles(c, isValid)
    \/ \E c \in DOMAIN flowCalls : ProcessUserInputResumes(c)

SpecFlow == Init /\ [][FlowNext]_vars

(***************************************************************************)
(* SpecWorklet: the capture worklet fed blocks of any of the sizes.        *)
(***************************************************************************)
WorkletNext == \E n \in BlockSizes : Process(n)

SpecWorklet == Init /\ [][WorkletNext]_vars

(***************************************************************************)
(* SpecRecorder: the capture bridge under any interleaving of start() and  *)
(* stop() calls with the settling of the promises start() awaits.          *)
(***************************************************************************)
RecorderNext ==
    \/ StartCall
    \/ \E i \in DOMAIN pc, ok \in BOOLEAN : GetUserMediaSettles(i, ok)
    \/ \E i \in DOMAIN pc, ok \in BOOLEAN : AudioContextSettles(i, ok)
    \/ \E i \in DOMAIN pc, ok \in BOOLEAN : AddModuleSettles(i, ok)
    \/ \E i \in DOMAIN pc, ok \in BOOLEAN : AddModuleVuSettles(i, ok)
    \/ StopCall
    \/ HandleStopRuns
    \/ WorkletPosts
    \/ MessageDelivered

\* an AudioRecorder constructed in a host with or without the media API
RecorderEnvInit ==
    /\ StreamerInit /\ RecorderInit /\ CodecInit /\ WorkletInit /\ FlowInit
    /\ mediaSupported \in BOOLEAN

SpecRecorder == RecorderEnvInit /\ [][RecorderNext]_vars

(***************************************************************************)
(* Properties of the playback scheduler                                    *)
(***************************************************************************)
StartedFrames == [i \in DOMAIN started |-> started[i].frame]

IsPrefix(a, b) == Len(a) <= Len(b) /\ \A i \in DOMAIN a : a[i] = b[i]

\* C1: every buffer started has a start time that is not before the audio
\* clock at the moment it is started.
C1_StartNotInPast ==
    \A i \in DOMAIN started : started[i].start >= started[i].at

\* C1 witness: a buffer started after the consumer stalled: the buffer
\* before it had ended before the pass ran, and it starts at the clock.
C1_Witness ==
    \E i \in DOMAIN started :
        /\ i > 1
        /\ started[i - 1].start + started[i - 1].frame.len < started[i].at
        /\ started[i].start = started[i].at

\* C2: the frames started since the last stop() are a prefix of the frames
\* appended since then, and their start times never decrease.
C2_StartedInAppendOrder ==
    /\ IsPrefix(StartedFrames, appended)
    /\ \A i \in DOMAIN started :
           i > 1 => started[i - 1].start <= started[i].start

\* C3: every frame appended since the last stop() has been started or is
\* still queued, in the order of appending.
C3_NoFrameLost == appended = StartedFrames \o audioQueue

\* C4: the frames appended by the calls since the last stop() are the
\* frames one call delivering all their bytes would append.
C4_ChunkingInvariance ==
    appended = SliceFrames(0, ProcessPCM16Chunk(bytesIn))

\* C5: after stop() and until the next addPCM16 the queue is empty and no
\* buffer is started, whichever timers fire.
C5_QuietAfterStop == stopped => (audioQueue = <<>> /\ started = <<>>)

\* C5 witness: a scheduling pass has run from a timer armed before the
\* stop() (only such a pass registers the poll interval after a stop).
C5_Witness == stopped /\ checkInterval /\ adds > 0

\* C9: the frames queued when a recovery within the budget begins are the
\* queue, in the same order, once it has rebuilt the output path.
C9_RecoveryKeepsQueue ==
    recovery # <<>> => recovery[2] = recovery[1]

\* C10: at most one fatal error is reported, however many failures follow.
C10_OneFatalError == fatalErrors <= 1

\* C11: once maxRetries scheduling failures have reached the recovery
\* controller, exactly one fatal error has been reported (the controller is
\* in its terminal state).
C11_ExhaustedAfterMaxRetries ==
    retryCount >= maxRetries => fatalErrors = 1

\* C12: no step decreases the retry counter, whether a buffer is started,
\* stop() is called or a timer fires, and no more than maxRetries recovery
\* attempts ever rebuild the output graph.
C12_RetryBudgetNeverRestored ==
    [][retryCount' >= retryCount /\ rebuilds' <= maxRetries]_vars

\* C12 witness: the budget is spent (three rebuilds, a failure beyond them)
\* with a stop() among the calls and a buffer started since.
C12_Witness ==
    /\ retryCount > maxRetries
    /\ rebuilds = maxRetries
    /\ stops > 0
    /\ started # <<>>

\* the slot of the i-th buffer when the first addPCM16 came at clock t0
\* and every frame lasts 0.1 s
ScenarioSlot(i) ==
    started[1].at + initialBufferTime + (i - 1) * (sampleRate \div 10)

\* the passes that started buffers 1..i each ran before the slot they fill
OnTime(i) == \A j \in 1..i : started[j].at <= ScenarioSlot(j)

\* C16: with addPCM16 calls of 4800 bytes on a fresh scheduler, each call
\* appends one frame of 2400 samples, the frames are started or queued in
\* call order, and while no scheduling pass runs late the i-th buffer is
\* started at the clock of the first call + initialBufferTime + (i-1)*0.1 s.
C16_ThreeChunkScenario ==
    /\ appended = [i \in 1..adds |->
                      [off |-> (i - 1) * 4800, len |-> sampleRate \div 10]]
    /\ appended = StartedFrames \o audioQueue
    /\ \A i \in DOMAIN started :
           OnTime(i) => started[i].start = ScenarioSlot(i)

\* C16 witness: three chunks were delivered, the three buffers were started
\* by passes at different clock times, none of them late.
C16_Witness ==
    /\ adds = 3
    /\ Len(started) = 3
    /\ OnTime(3)
    /\ started[1].at < started[2].at
    /\ started[2].at < started[3].at

RECURSIVE SumLen(_)
SumLen(frames) ==
    IF frames = <<>> THEN 0 ELSE Head(frames).len + SumLen(Tail(frames))

\* C17: an addPCM16 call with a chunk of n samples appends n \div bufferSize
\* frames of exactly bufferSize samples, then one frame of the n % bufferSize
\* samples left if any; the frames are consecutive stretches of the chunk,
\* their lengths sum to n, and none is empty or longer than bufferSize.
C17_SlicedByBufferSize ==
    [][adds' = adds + 1 =>
        LET n == ProcessPCM16Chunk(bytesIn' - bytesIn)
            new == SubSeq(appended', Len(appended) + 1, Len(appended'))
            full == n \div bufferSize
            rest == n % bufferSize
        IN  /\ Len(new) = full + (IF rest > 0 THEN 1 ELSE 0)
            /\ \A i \in 1..full : new[i].len = bufferSize
            /\ rest > 0 => new[Len(new)].len = rest
            /\ SumLen(new) = n
            /\ \A i \in DOMAIN new :
                   /\ new[i].len > 0
                   /\ new[i].len <= bufferSize
                   /\ new[i].off = bytesIn + 2 * bufferSize * (i - 1)]_vars

\* C17 witness: one call delivered two full buffers and one sample more.
C17_Witness ==
    /\ adds = 1
    /\ bytesIn \div 2 = 2 * bufferSize + 1
    /\ Len(appended) = 3
    /\ appended[3].len = 1

\* C18: an addPCM16 call that delivers at least one frame while the
\* scheduler is not playing (the first call ever, or the first after a
\* stop()), and in which the host raises no exception, starts the first
\* frame it delivers at the clock of the call + initialBufferTime.
C18_InitialBufferDelay ==
    [][(/\ adds' = adds + 1
        /\ ~isPlaying
        /\ Len(appended') > Len(appended)
        /\ failures' = failures) =>
           /\ Len(started') > Len(started)
           /\ started'[Len(started) + 1].frame = appended'[Len(appended) + 1]
           /\ started'[Len(started) + 1].at = now
           /\ started'[Len(started) + 1].start = now + initialBufferTime]_vars

\* C18 witness: the first buffer started after a stop(), at a clock that
\* has advanced, is started initialBufferTime after the call.
C18_Witness ==
    /\ stops > 0
    /\ ~stopped
    /\ started # <<>>
    /\ started[1].at > 0
    /\ started[1].frame = appended[1]
    /\ started[1].start = started[1].at + initialBufferTime

\* C19: a stop() call leaves the queue empty, the scheduled clock at the
\* audio clock, the poll interval cancelled and isPlaying false; and once
\* the rebuilds armed by the stop() calls so far have all run, the gain
\* node in use is a node no stop() has faded, it is connected to the
\* output, and no faded node is connected any more.
C19_StopResetsAndRebuildsGain ==
    [][/\ stops' = stops + 1 =>
              /\ audioQueue' = <<>>
              /\ scheduledTime' = now'
              /\ ~checkInterval'
              /\ ~isPlaying'
       /\ (stops' > 0 /\ fadeTimers' = 0) =>
              /\ gainNode' \notin faded'
              /\ gainNode' \in connected'
              /\ faded' \cap connected' = {}]_vars

\* the state of the scheduler: not playing with a gain rebuild of stop()
\* pending (FadingOut) or without (Idle); playing with frames queued
\* (Playing) or with none (Draining)
SchedulerState ==
    IF ~isPlaying
    THEN IF fadeTimers > 0 THEN "FadingOut" ELSE "Idle"
    ELSE IF audioQueue # <<>> THEN "Playing" ELSE "Draining"

\* the transitions of the claim; Idle to Draining is Idle to Playing to
\* Draining within one addPCM16 call that starts all it delivers
SchedulerTransitions ==
    {<<"Idle", "Playing">>, <<"Playing", "Draining">>, <<"Idle", "Draining">>,
     <<"Draining", "Idle">>, <<"Draining", "Playing">>,
     <<"Idle", "FadingOut">>, <<"Playing", "FadingOut">>,
     <<"Draining", "FadingOut">>, <<"FadingOut", "Idle">>}

\* C20: every step that changes the state of the scheduler is one of the
\* transitions Idle -> Playing -> Draining -> Idle, Draining -> Playing,
\* any state -> FadingOut, FadingOut -> Idle.
C20_SchedulerTransitions ==
    [][\/ SchedulerState' = SchedulerState
       \/ <<SchedulerState, SchedulerState'>> \in SchedulerTransitions]_vars

Draining == isPlaying /\ audioQueue = <<>> /\ ~isStreamComplete

\* C21: while the scheduler is playing with an empty queue and the stream
\* not complete, the poll interval is registered (so that a frame appended
\* then is started by a poll without a further call).
C21_PollActiveWhileDraining == Draining => checkInterval

\* C22: whenever the queue is empty and the stream is marked complete, no
\* poll interval is registered and the scheduler is not playing.
C22_IdleWhenComplete ==
    (audioQueue = <<>> /\ isStreamComplete) => (~checkInterval /\ ~isPlaying)

\* C22 witness: the stream was marked complete while the poll interval was
\* registered, and a pass armed before that has run since and found the
\* queue empty and the stream complete.
C22_Witness ==
    /\ audioQueue = <<>>
    /\ isStreamComplete
    /\ stops > 0
    /\ adds > 0
    /\ timeouts = 0
    /\ now > 0

\* C27: every stop() call, whatever timers are pending, leaves the queue
\* empty, isPlaying false and no poll interval; and once the rebuilds armed
\* by the stop() calls have all run, the gain node in use is the only gain
\* node connected to the output.
C27_StopCancellationSafe ==
    [][/\ stops' = stops + 1 =>
              /\ audioQueue' = <<>>
              /\ ~isPlaying'
              /\ ~checkInterval'
       /\ (stops' > 0 /\ fadeTimers' = 0) => connected' = {gainNode'}]_vars

\* C28: whenever frames are queued and the scheduler is marked playing, a
\* scheduling timeout or the poll interval is pending (so that the frames
\* are started once the timers fire).
C28_QueuedFramesHaveTimer ==
    (audioQueue # <<>> /\ isPlaying) => (timeouts > 0 \/ checkInterval)

\* C30: of two buffers started one after the other with no stop() between
\* them (none by the caller, none by a recovery, which replaces the gain
\* stage), the later one starts no earlier than the earlier one ends, and
\* exactly when it ends if the pass that started the later one ran before
\* that end; a failed buffer start between the two changes nothing to it.
C30_BackToBack ==
    \A i \in DOMAIN started :
        (i > 1 /\ started[i].gain = started[i - 1].gain) =>
            LET end == started[i - 1].start + started[i - 1].frame.len
            IN  /\ started[i].start >= end
                /\ started[i].at < end => started[i].start = end

\* C31: every step in which the host raises an exception while a buffer is
\* scheduled or started (in addPCM16, in a pass run by a timer, or from
\* source.start()) increments the retry counter, so that it leads to a
\* recovery attempt or to the exhausted outcome.
C31_EveryFailureCounted ==
    [][failures' > failures => retryCount' > retryCount]_vars

\* C32: every operation that assigns the scheduled clock (addPCM16, a
\* scheduling pass with or without a failed start, stop(), resume(), a
\* recovery) leaves it at or after the audio clock of that moment.
C32_ScheduledNotBehindClock ==
    [][scheduledTime' # scheduledTime => scheduledTime' >= now']_vars

\* C32 witness: a pass that ran after the scheduled clock had fallen behind
\* the audio clock started a buffer, and the scheduled clock is that
\* buffer's end.
C32_Witness ==
    /\ started # <<>>
    /\ LET last == started[Len(started)]
       IN  /\ last.at > initialBufferTime
           /\ last.start = last.at
           /\ scheduledTime = last.start + last.frame.len

\* C35: a buffer started after a stop() (one of the caller, or the one of
\* a recovery, after which the gain stage is no longer the first) that has
\* not finished playing is attached to a gain stage connected to the
\* output: the rebuild armed by the stop() does not disconnect it.
C35_RebuildSparesPlayingBuffers ==
    \A i \in DOMAIN started :
        ( /\ stops > 0 \/ started[i].gain # 1
          /\ started[i].start + started[i].frame.len > now )
            => started[i].gain \in connected

\* C37: every step leaves at most one poll interval registered, and a
\* stop() of the caller leaves none.
C37_OnePollInterval ==
    [][/\ intervals' <= 1
       /\ stops' > stops => intervals' = 0]_vars

\* C37 witness: after a stop() that found the poll interval registered
\* playback went on, a pass has found the queue empty with the interval
\* of an earlier pass registered, and one interval is registered.
C37_Witness ==
    /\ stops > 0
    /\ Len(started) >= 2
    /\ audioQueue = <<>>
    /\ isPlaying
    /\ failures = 0
    /\ intervals = 1

(***************************************************************************)
(* Properties of the capture bridge                                        *)
(***************************************************************************)
Settled == InFlight = {} /\ runnable = 0

\* C6: at most one initialization is in flight at any time: a start()
\* issued during an earlier one does not call getUserMedia again.
C6_SingleInitialization == Cardinality(InFlight) <= 1

\* C7: with one start() and stop() calls issued while it is in flight, the
\* microphone is acquired once and its track is never stopped twice; once
\* the start has fulfilled and the deferred stops have run, the track has
\* been stopped exactly once and the recorder is not recording.
C7_OneAcquisitionOneTeardown ==
    (Len(pc) = 1 /\ handlers[1] > 0) =>
        /\ Len(trackStops) <= 1
        /\ \A k \in DOMAIN trackStops : trackStops[k] <= 1
        /\ (pc[1] = "fulfilled" /\ runnable = 0) =>
               /\ trackStops = <<1>>
               /\ stream = 0
               /\ ~recording

\* C7 witness: two stop() calls were deferred on the one start(), it has
\* fulfilled and both deferred teardowns have run.
C7_Witness ==
    /\ Len(pc) = 1
    /\ handlers[1] = 2
    /\ pc[1] = "fulfilled"
    /\ runnable = 0

\* C8: when a stop() was deferred on the one start() and that start has
\* settled, by fulfilment or by rejection, the teardown has run: every
\* acquired track is released, nothing is connected, recording is false.
C8_DeferredStopRunsOnSettle ==
    (Len(pc) = 1 /\ handlers[1] > 0 /\ Settled) =>
        /\ \A k \in DOMAIN trackStops : trackStops[k] >= 1
        /\ stream = 0
        /\ links = {}
        /\ ~recording

Unreleased == {k \in DOMAIN trackStops : trackStops[k] = 0}

\* C13: when getUserMedia has refused every start() so far (no stream was
\* ever acquired) and one of them has failed with the error, the recorder
\* is idle: no stream handle, no source, not recording, no worklet node,
\* nothing connected, and no settled start recorded as in flight.
C13_DeniedLeavesIdle ==
    (trackStops = <<>> /\ \E i \in DOMAIN pc : pc[i] = "rejected") =>
        /\ stream = 0
        /\ source = 0
        /\ ~recording
        /\ ~recordingWorklet
        /\ ~vuWorklet
        /\ links = {}
        /\ starting = 0 \/ starting \in InFlight

\* C13 witness: the one start() was refused the microphone after a stop()
\* had been deferred on it, and nothing is in flight.
C13_Witness ==
    /\ pc = <<"rejected">>
    /\ trackStops = <<>>
    /\ handlers[1] > 0

\* C14: a start() call begins an initialization only when the recorder is
\* idle: none is in flight (Starting) and it is not recording (Recording).
C14_StartOnlyFromIdle ==
    [][Len(pc') > Len(pc) => (InFlight = {} /\ ~recording)]_vars

\* C15: at most one acquired microphone stream has not been released.
C15_OneLiveStream == Cardinality(Unreleased) <= 1

\* C25: the missing media API is never reported by start() (it was
\* reported when the recorder was constructed), and in a host without it
\* no device is ever accessed and the recorder stays idle with no start
\* recorded as in flight.
C25_FailsAtConstruction ==
    /\ envFailure # "start"
    /\ ~mediaSupported =>
           /\ trackStops = <<>>
           /\ InFlight = {}
           /\ starting = 0
           /\ stream = 0
           /\ ~recording

\* C26: every stop() call on a recorder whose one start() has fulfilled
\* leaves the same state, the first call and each call after it alike: no
\* stream, no worklet node, nothing connected, not recording, and the
\* track of the stream stopped exactly once.
C26_StopIdempotent ==
    [][(stopCalls' = stopCalls + 1 /\ pc = <<"fulfilled">>) =>
           /\ stream' = 0
           /\ source' = source
           /\ ~recordingWorklet'
           /\ ~vuWorklet'
           /\ ~recording'
           /\ starting' = 0
           /\ links' = {}
           /\ trackStops' = <<1>>]_vars

\* C26 witness: two stop() calls were made, none of them deferred on the
\* start(), which has fulfilled; the recorder is torn down.
C26_Witness ==
    /\ pc = <<"fulfilled">>
    /\ handlers[1] = 0
    /\ stopCalls = 2
    /\ stream = 0
    /\ trackStops = <<1>>

\* C33: when two start() calls overlapped (the second was made while the
\* first was in flight), every call after them was a stop() and there was
\* at least one, then once every start has settled and every deferred
\* teardown has run the recorder is not recording and no acquired
\* microphone track is live.
OverlappingStartsThenStop ==
    /\ Len(calls) >= 3
    /\ calls[1].op = "start"
    /\ calls[2].op = "start" /\ calls[2].inFlight = 1
    /\ \A k \in 3..Len(calls) : calls[k].op = "stop"

C33_OverlappingStartsReleased ==
    (OverlappingStartsThenStop /\ Settled) =>
        (~recording /\ Unreleased = {})

\* C34: when the one start() has acquired the microphone and then rejected
\* (the audio context or a worklet module failed), the acquired track has
\* been released, the stream handle is cleared and nothing is connected.
C34_FailedStartReleases ==
    (pc = <<"rejected">> /\ trackStops # <<>>) =>
        /\ Unreleased = {}
        /\ stream = 0
        /\ links = {}

\* C36: no "data" event is emitted while the recorder is torn down, that
\* is after a handleStop has run and before the next start() call.
C36_NoDataAfterStop ==
    [][dataEvents' > dataEvents => ~tornDown]_vars

(***************************************************************************)
(* Properties of the codec                                                 *)
(***************************************************************************)
Abs(n) == IF n < 0 THEN 0 - n ELSE n

InRange(x) == Clamp(x) = x

\* |x - y| and 1/32768, both in units of 1 / (x.den * y.den)
ErrorNum(x, y) == Abs(x.num * y.den - y.num * x.den)

Quantum(x, y) == (x.den \div NegScale) * y.den

\* C23 as claimed: the round trip of an in-range sample differs from the
\* sample by at most 1/32768; the round trip of an out-of-range sample is
\* the round trip of +1.0 or -1.0.
C23_RoundTripWithinQuantum ==
    roundTrip # <<>> =>
        LET x == floats[1]
            y == roundTrip[1]
        IN  /\ InRange(x) => ErrorNum(x, y) <= Quantum(x, y)
            /\ roundTrip = PCM16ToFloat32(float32ToPCM16(<<Clamp(x)>>))

\* C23 amended: the round trip of an in-range sample differs from the
\* sample by less than 1/32767 when the sample is non-negative and by less
\* than 1/32768 when it is negative; the round trip of an out-of-range
\* sample is the round trip of +1.0 or -1.0.
C23_RoundTripWithinScaleStep ==
    roundTrip # <<>> =>
        LET x == floats[1]
            y == roundTrip[1]
        IN  /\ (InRange(x) /\ x.num >= 0) =>
                   ErrorNum(x, y) - Quantum(x, y)
                       <= (Quantum(x, y) - 1) \div PosScale
            /\ (InRange(x) /\ x.num < 0) => ErrorNum(x, y) < Quantum(x, y)
            /\ roundTrip = PCM16ToFloat32(float32ToPCM16(<<Clamp(x)>>))

\* C23 witness: a positive in-range sample whose round trip is off by more
\* than 1/32768.
C23_Witness ==
    /\ roundTrip # <<>>
    /\ InRange(floats[1])
    /\ floats[1].num > 0
    /\ ErrorNum(floats[1], roundTrip[1]) > Quantum(floats[1], roundTrip[1])

\* C24: the library converter and the worklet converter give the same
\* int16 for every sample; it lies in [-32768, 32767]; samples <= -1.0
\* give -32768, samples >= 1.0 give 32767 and 0 gives 0; an in-range
\* sample gives its product with 32768 (negative) or 32767 (non-negative)
\* truncated toward zero.
C24_ClampedAsymmetricScaling ==
    int16s # <<>> =>
        LET x == floats[1]
            q == int16s[1]
        IN  /\ workletInt16s = int16s
            /\ q \in Int16Min..Int16Max
            /\ x.num <= 0 - x.den => q = Int16Min
            /\ x.num >= x.den => q = Int16Max
            /\ x.num = 0 => q = 0
            /\ (InRange(x) /\ x.num >= 0) =>
                   /\ q * x.den <= x.num * PosScale
                   /\ x.num * PosScale - q * x.den < x.den
            /\ (InRange(x) /\ x.num < 0) =>
                   /\ q * x.den >= x.num * NegScale
                   /\ q * x.den - x.num * NegScale < x.den

\* C24 witness: a sample above 1.0 was converted to 32767 by both.
C24_Witness ==
    /\ int16s # <<>>
    /\ floats[1].num > floats[1].den
    /\ int16s[1] = Int16Max
    /\ workletInt16s[1] = Int16Max

(***************************************************************************)
(* Properties of the capture worklet                                       *)
(***************************************************************************)
\* C29: a process() call posts a chunk exactly when the samples pending
\* with its block number at least 1600; the chunk is the conversion of all
\* samples captured since the previous chunk, in order, and nothing stays
\* pending; otherwise nothing is posted.  After every call the chunks
\* posted so far, concatenated, are the conversion of a prefix of the
\* captured samples, and the samples pending are the rest, fewer than 1600.
C29_TranscoderAccumulates ==
    [][LET n == Len(captured') - Len(captured)
           pending == Len(captured) - Len(Flatten(emitted))
           posted == Flatten(emitted')
       IN  /\ IF pending + n >= WorkletThreshold
              THEN /\ emitted' = Append(emitted,
                          convertToInt16(SubSeq(captured',
                              Len(captured') - (pending + n) + 1,
                              Len(captured'))))
                   /\ frameCount' = 0
                   /\ buffers' = <<>>
              ELSE emitted' = emitted
           /\ posted = convertToInt16(SubSeq(captured', 1, Len(posted)))
           /\ Flatten(buffers') =
                  SubSeq(captured', Len(posted) + 1, Len(captured'))
           /\ frameCount' = Len(Flatten(buffers'))
           /\ frameCount' < WorkletThreshold]_vars

\* C29 witness: two chunks were posted, the first of more than 1600
\* samples, and samples are pending.
C29_Witness ==
    /\ Len(emitted) = 2
    /\ Len(emitted[1]) > WorkletThreshold
    /\ frameCount > 0

(***************************************************************************)
(* Properties of the decoders                                              *)
(***************************************************************************)
SameSample(x, y) == x.num * y.den = y.num * x.den

\* C38: for every 16-bit value, the sample the playback scheduler decodes
\* from its two little-endian bytes equals the sample PCM16ToFloat32 of the
\* library decodes from the value.
C38_DecodersAgree ==
    (chunkFloats # <<>> /\ roundTrip # <<>>) =>
        \A i \in DOMAIN chunkFloats :
            SameSample(chunkFloats[i], roundTrip[i])

(***************************************************************************)
(* Properties of the onboarding flow                                       *)
(***************************************************************************)
\* C39: once advanceStep has succeeded on every step of a flow including
\* the last, createProgress reports the status "completed" for it, and a
\* processUserInput whose advanceStep made the last advance returned
\* completed = true.
C39_CompletedReached ==
    /\ \A f \in DOMAIN flows :
           flows[f].finished => ProgressStatus(flows[f]) = "completed"
    /\ lastResult.message = "completed" => lastResult.completed

====
